---- MODULE Spec2Model ----
(***************************************************************************)
(* Model of the MusicInspirationRepo component                              *)
(* (src/src/app/music-inspiration-repo.tsx) and of getSupabase              *)
(* (src/unnamed/part_000).                                                  *)
(*                                                                          *)
(* The component is a React function component.  Its state variables        *)
(* (snippets, currentlyPlaying, loading, useLocalStorage) are read by an    *)
(* event handler from the render in which the handler was created: the      *)
(* part of an async handler that runs after an await still sees the values  *)
(* of that render.  An asynchronous handler is therefore modelled by a      *)
(* record in the bag inflight that carries the values it closed over, and   *)
(* by one action for the part that runs when the awaited call answers.      *)
(* audioRefs is a ref: it is read live, never from a closure.               *)
(*                                                                          *)
(* React (createRoot) renders a state update made in the handler of a       *)
(* click, a change or a blur before the handler's task ends, and one made    *)
(* after an await or in the handler of "ended" in a later task.  snippets,   *)
(* currentlyPlaying and useLocalStorage are the values of the last render,   *)
(* which a handler called now closes over; pending holds the updates that    *)
(* wait for their render, and Render is that render.  A click, change or     *)
(* blur handled in between renders its own updates at once and leaves the    *)
(* queued updates of the other state variables waiting; of two updates of    *)
(* one state variable the later one stands.                                  *)
(*                                                                          *)
(* A handler can be called again while the call it awaited before has not   *)
(* answered, so inflight is a bag: it can hold a call twice.                 *)
(*                                                                          *)
(* Strings the code inspects character by character (start_time, the two    *)
(* URLs) are sequences of one-character strings; the other strings are      *)
(* TLA+ strings.  An id is the number Date.now() returned (the code keeps   *)
(* its decimal string, which is injective); NoId stands for null.           *)
(*                                                                          *)
(* Left out: the saving flag (it only shows a spinner), fileInputRefs, the  *)
(* updated_at column the upsert stamps, and the position of an audio        *)
(* element, which the environment supplies when it is read.                 *)
(***************************************************************************)
EXTENDS Integers, Sequences, FiniteSets, Bags

VARIABLES
    supabaseUrl,       \* NEXT_PUBLIC_SUPABASE_URL is set
    supabaseKey,       \* NEXT_PUBLIC_SUPABASE_ANON_KEY is set
    mounted,           \* the mount effect has run
    snippets,          \* useState: the in-memory collection
    currentlyPlaying,  \* useState: id or NoId
    loading,           \* useState
    useLocalStorage,   \* useState: the Local-mode flag
    audioRefs,         \* audioRefs.current: the ids that have an audio element
    playing,           \* the ids whose audio element is playing
    localStorage,      \* localStorage["musicSnippets"]: <<>> or <<collection>>
    remote,            \* table music_snippets: the set of its rows
    inflight,          \* the bag of awaited calls that have not answered yet
    pending,           \* the state updates that wait for their render
    clock              \* the last value Date.now() returned

vars == <<supabaseUrl, supabaseKey, mounted, snippets, currentlyPlaying, loading,
          useLocalStorage, audioRefs, playing, localStorage, remote, inflight,
          pending, clock>>

----------------------------------------------------------------------------
(* Bounds *)

\* Date.now() values of the session: ids are taken from 1..MaxClock
MaxClock == 2
\* awaited calls in flight at the same time
MaxInflight == 2
\* records in the in-memory collection
MaxSnippets == 2

NoId == 0
Null == "null"

----------------------------------------------------------------------------
(* Character strings *)

EmptyStr == <<>>
DefaultTime == <<"0", ":", "0", "0">>

Digits == <<"0", "1", "2", "3", "4", "5", "6", "7", "8", "9">>

IsDigit(c) == \E i \in 1..10 : Digits[i] = c

DigitValue(c) == (CHOOSE i \in 1..10 : Digits[i] = c) - 1

\* s.split(":"): part j lies between colon j - 1 and colon j of s
Split(s) ==
    LET colons == {i \in 1..Len(s) : s[i] = ":"}
        colon(j) == IF j = 0 THEN 0
                    ELSE IF j > Cardinality(colons) THEN Len(s) + 1
                    ELSE CHOOSE i \in colons :
                             Cardinality({c \in colons : c < i}) = j - 1
    IN [j \in 1..(Cardinality(colons) + 1) |->
           SubSeq(s, colon(j - 1) + 1, colon(j) - 1)]

\* the letters that are digits of radix 16
HexLetters == <<"a", "b", "c", "d", "e", "f">>
HexCapitals == <<"A", "B", "C", "D", "E", "F">>

IsHexLetter(c) == \E i \in 1..6 : HexLetters[i] = c \/ HexCapitals[i] = c

\* the value of c as a digit of a radix up to 16; 16 when it is none
RadixValue(c) ==
    IF IsDigit(c) THEN DigitValue(c)
    ELSE IF IsHexLetter(c)
         THEN 9 + (CHOOSE i \in 1..6 : HexLetters[i] = c \/ HexCapitals[i] = c)
         ELSE 16

\* The white space Number.parseInt skips at the start of its input (the
\* StrWhiteSpaceChar of ECMAScript: WhiteSpace and LineTerminator).  A
\* character that is not printable ASCII and has no escape in a TLA+ string
\* is written by its code point: "U+00A0" is the no-break space.
WhiteSpace ==
    {" ", "\t", "\n", "\r", "\f", "U+000B", "U+00A0", "U+1680",
     "U+2000", "U+2001", "U+2002", "U+2003", "U+2004", "U+2005", "U+2006",
     "U+2007", "U+2008", "U+2009", "U+200A",
     "U+2028", "U+2029", "U+202F", "U+205F", "U+3000", "U+FEFF"}

\* the number of characters at the start of s that are in the set chars
LeadingIn(s, chars) ==
    IF \A i \in 1..Len(s) : s[i] \in chars
    THEN Len(s)
    ELSE (CHOOSE i \in 1..Len(s) :
              s[i] \notin chars /\ \A j \in 1..(i - 1) : s[j] \in chars) - 1

\* s without the characters of the set chars it starts with
SkipLeading(s, chars) == SubSeq(s, LeadingIn(s, chars) + 1, Len(s))

SkipWhiteSpace(s) == SkipLeading(s, WhiteSpace)

----------------------------------------------------------------------------
(* Numbers.  A Number of the program is a double.  Those that parseInt and  *)
(* timeToSeconds produce are integers, Infinity, -Infinity or NaN.  An      *)
(* integer can be far beyond the integers of TLC, so its magnitude is kept  *)
(* as a sequence of limbs: digits of base LimbBase, the lowest first, the   *)
(* highest not 0; <<>> is 0.  A function of the program that returns a      *)
(* Number returns it written out: the characters of its decimal expansion   *)
(* (as BigInt(x).toString() writes it), or of Infinity, -Infinity or NaN.   *)
(* The operators on limbs are written without a recursion over the limbs,   *)
(* so that an input of hundreds of digits is evaluated as a short one is.   *)

LimbDigits == 4
LimbBase == 10000

\* the limb of n of weight LimbBase^(k - 1)
Limb(n, k) == IF k <= Len(n) THEN n[k] ELSE 0

\* n without limbs of value 0 at its high end
Trim(n) ==
    LET top == IF \A k \in 1..Len(n) : n[k] = 0
               THEN 0
               ELSE CHOOSE k \in 1..Len(n) :
                        n[k] # 0 /\ \A j \in (k + 1)..Len(n) : n[j] = 0
    IN SubSeq(n, 1, top)

\* x + y: limb k takes a carry when a limb below it overflows and every limb
\* in between passes the carry on
AddLimbs(x, y) ==
    LET n == (IF Len(x) > Len(y) THEN Len(x) ELSE Len(y)) + 1
        a == [k \in 1..n |-> Limb(x, k) + Limb(y, k)]
        carry(k) == IF \E j \in 1..(k - 1) :
                           /\ a[j] >= LimbBase
                           /\ \A i \in (j + 1)..(k - 1) : a[i] = LimbBase - 1
                    THEN 1 ELSE 0
    IN Trim([k \in 1..n |-> (a[k] + carry(k)) % LimbBase])

\* x - y, for x >= y
SubLimbs(x, y) ==
    LET d == [k \in 1..Len(x) |-> x[k] - Limb(y, k)]
        borrow(k) == IF \E j \in 1..(k - 1) :
                            /\ d[j] < 0
                            /\ \A i \in (j + 1)..(k - 1) : d[i] = 0
                     THEN 1 ELSE 0
    IN Trim([k \in 1..Len(x) |-> (d[k] - borrow(k) + LimbBase) % LimbBase])

\* x < y
LessLimbs(x, y) ==
    IF Len(x) # Len(y)
    THEN Len(x) < Len(y)
    ELSE \E i \in 1..Len(x) :
             x[i] < y[i] /\ \A j \in (i + 1)..Len(x) : x[j] = y[j]

\* f[lo] + ... + f[hi]
RECURSIVE Sum(_, _, _)
Sum(f, lo, hi) ==
    IF lo > hi THEN 0
    ELSE IF lo = hi THEN f[lo]
    ELSE LET mid == (lo + hi) \div 2
         IN Sum(f, lo, mid) + Sum(f, mid + 1, hi)

\* x * y: the products of weight LimbBase^(k - 1) are summed in two halves,
\* their low limbs and their high limbs, and the columns are added up
MulLimbs(x, y) ==
    IF x = <<>> \/ y = <<>>
    THEN <<>>
    ELSE LET n == Len(x) + Len(y)
             from(k) == IF k > Len(y) THEN k + 1 - Len(y) ELSE 1
             to(k) == IF k < Len(x) THEN k ELSE Len(x)
             lows == [k \in 1..n |->
                         Sum([i \in from(k)..to(k) |->
                                  (x[i] * y[k + 1 - i]) % LimbBase],
                             from(k), to(k))]
             highs == [k \in 1..n |->
                          Sum([i \in from(k)..to(k) |->
                                   (x[i] * y[k + 1 - i]) \div LimbBase],
                              from(k), to(k))]
             column == [k \in 1..n |->
                           lows[k] + (IF k > 1 THEN highs[k - 1] ELSE 0)]
         IN AddLimbs([k \in 1..n |-> column[k] % LimbBase],
                     [k \in 1..(n + 1) |->
                         IF k = 1 THEN 0 ELSE column[k - 1] \div LimbBase])

\* x * x
Square(x) == MulLimbs(x, x)

\* b^k, for b below LimbBase
RECURSIVE PowLimbs(_, _)
PowLimbs(b, k) ==
    IF k = 0 THEN <<1>>
    ELSE IF k = 1 THEN <<b>>
    ELSE IF k % 2 = 0 THEN Square(PowLimbs(b, k \div 2))
    ELSE MulLimbs(PowLimbs(b, k - 1), <<b>>)

\* the decimal digits of n; none for 0
ToDecimal(n) ==
    LET padded == [j \in 1..(LimbDigits * Len(n)) |->
                      LET k == Len(n) - ((j - 1) \div LimbDigits)
                          p == (LimbDigits - 1) - ((j - 1) % LimbDigits)
                      IN Digits[((n[k] \div (10 ^ p)) % 10) + 1]]
    IN SkipLeading(padded, {"0"})

\* the characters that are digits of the radix
RadixDigits(radix) ==
    {Digits[i] : i \in {j \in 1..10 : j <= radix}}
        \cup {HexLetters[i] : i \in {j \in 1..6 : 9 + j < radix}}
        \cup {HexCapitals[i] : i \in {j \in 1..6 : 9 + j < radix}}

\* the integer that the digits ds write in the radix (10 or 16): the value of
\* the left half times the weight of the right half, plus the right half
RECURSIVE ParseDigits(_, _)
ParseDigits(ds, radix) ==
    IF Len(ds) < LimbDigits
    THEN Trim(<<Sum([i \in 1..Len(ds) |->
                        RadixValue(ds[i]) * (radix ^ (Len(ds) - i))],
                    1, Len(ds))>>)
    ELSE LET h == Len(ds) \div 2
         IN AddLimbs(MulLimbs(ParseDigits(SubSeq(ds, 1, Len(ds) - h), radix),
                              PowLimbs(radix, h)),
                     ParseDigits(SubSeq(ds, Len(ds) - h + 1, Len(ds)), radix))

\* 2^53: every integer up to it is a double
TwoTo53 == PowLimbs(2, 53)

\* 2^1024: the doubles are below it
TwoTo1024 == PowLimbs(2, 1024)

\* the number of decimal digits of n, for n above 0
DecimalLength(n) ==
    LimbDigits * (Len(n) - 1)
        + CHOOSE d \in 1..LimbDigits :
              (10 ^ (d - 1)) <= n[Len(n)] /\ n[Len(n)] < (10 ^ d)

\* the number of binary digits of n, for n above 0: an integer of L decimal
\* digits has between 3.321 * (L - 1) and 3.322 * L + 1 of them
BitLength(n) ==
    LET L == DecimalLength(n)
    IN CHOOSE e \in ((3321 * (L - 1)) \div 1000 + 1)..((3322 * L) \div 1000 + 1) :
           ~LessLimbs(n, PowLimbs(2, e - 1)) /\ LessLimbs(n, PowLimbs(2, e))

\* q + 0.r (r the decimal digits of a fraction) is rounded up to q + 1: the
\* fraction is above one half, or it is one half and q is odd
RoundsUp(q, r) ==
    LET first == DigitValue(Head(r))
        exactHalf == first = 5 /\ LeadingIn(Tail(r), {"0"}) = Len(r) - 1
    IN \/ first > 5
       \/ first = 5 /\ ~exactHalf
       \/ exactHalf /\ Head(q) % 2 = 1

\* q + 0.r rounded to the nearest integer, ties to the even one
RoundedToEven(q, r) == IF RoundsUp(q, r) THEN AddLimbs(q, <<1>>) ELSE q

\* scaled / 10^s rounded to the nearest integer, for scaled in decimal digits
RoundedQuotient(scaled, s) ==
    RoundedToEven(ParseDigits(SubSeq(scaled, 1, Len(scaled) - s), 10),
                  SubSeq(scaled, Len(scaled) - s + 1, Len(scaled)))

\* n rounded to a multiple of 2^s, for s > 0: n / 2^s is n * 5^s / 10^s, so
\* n * 5^s in decimal is the quotient followed by the s digits of the fraction
RoundedAt(n, s) ==
    MulLimbs(RoundedQuotient(ToDecimal(MulLimbs(n, PowLimbs(5, s))), s),
             PowLimbs(2, s))

\* The magnitude of the double nearest to n (53 significant binary digits,
\* ties to the even one), as an integer of any size.
RoundedMagnitude(n) ==
    IF ~LessLimbs(TwoTo53, n) THEN n ELSE RoundedAt(n, BitLength(n) - 53)

\* the Numbers
Finite(neg, mag) == [kind |-> "finite", neg |-> neg /\ mag # <<>>, mag |-> mag]
Infinite(neg) == [kind |-> "infinite", neg |-> neg, mag |-> <<>>]
NotANumber == [kind |-> "nan", neg |-> FALSE, mag |-> <<>>]

\* the Number of sign neg and magnitude r, for r a double or 2^1024
InRange(neg, r) ==
    IF LessLimbs(r, TwoTo1024) THEN Finite(neg, r) ELSE Infinite(neg)

\* The double nearest to the integer of sign neg and magnitude n: what
\* rounds to 2^1024 is Infinity.
ToDouble(neg, n) == InRange(neg, RoundedMagnitude(n))

\* a * 60
Times60(a) ==
    IF a.kind = "finite" THEN ToDouble(a.neg, MulLimbs(a.mag, <<60>>)) ELSE a

\* a + b
Plus(a, b) ==
    IF a.kind = "nan" \/ b.kind = "nan" THEN NotANumber
    ELSE IF a.kind = "infinite" /\ b.kind = "infinite"
         THEN IF a.neg = b.neg THEN a ELSE NotANumber
    ELSE IF a.kind = "infinite" THEN a
    ELSE IF b.kind = "infinite" THEN b
    ELSE IF a.neg = b.neg THEN ToDouble(a.neg, AddLimbs(a.mag, b.mag))
    ELSE IF LessLimbs(a.mag, b.mag)
         THEN ToDouble(b.neg, SubLimbs(b.mag, a.mag))
         ELSE ToDouble(a.neg, SubLimbs(a.mag, b.mag))

InfinityChars == <<"I", "n", "f", "i", "n", "i", "t", "y">>
NaNChars == <<"N", "a", "N">>

\* the Number a, written out
Written(a) ==
    IF a.kind = "nan" THEN NaNChars
    ELSE IF a.kind = "infinite"
         THEN (IF a.neg THEN <<"-">> ELSE <<>>) \o InfinityChars
    ELSE IF a.mag = <<>> THEN <<"0">>
    ELSE (IF a.neg THEN <<"-">> ELSE <<>>) \o ToDecimal(a.mag)

\* a written Number is a finite one
IsFiniteNumber(w) ==
    w \notin {NaNChars, InfinityChars, <<"-">> \o InfinityChars}

\* the most digits an integer below 2^1024 has in the radix (10 or 16)
MaxSignificant(radix) == IF radix = 16 THEN 256 ELSE 309

\* Number.parseInt(x) || 0, as a Number.  parseInt is called without a
\* radix: it skips leading white space, takes a sign, reads what follows 0x
\* or 0X as hexadecimal and anything else as decimal, stops at the first
\* character that is no digit, and returns the double nearest to the integer
\* it has read, which is Infinity for an integer of more significant digits
\* than a double can have.  Without a digit it gives NaN, and NaN || 0 is 0,
\* as is -0 || 0.
ParseIntNumber(x) ==
    LET trimmed == SkipWhiteSpace(x)
        signed == trimmed # <<>> /\ Head(trimmed) \in {"+", "-"}
        negative == trimmed # <<>> /\ Head(trimmed) = "-"
        unsigned == IF signed THEN Tail(trimmed) ELSE trimmed
        hex == /\ Len(unsigned) >= 2
               /\ unsigned[1] = "0"
               /\ unsigned[2] \in {"x", "X"}
        radix == IF hex THEN 16 ELSE 10
        body == IF hex THEN SubSeq(unsigned, 3, Len(unsigned)) ELSE unsigned
        digits == SubSeq(body, 1, LeadingIn(body, RadixDigits(radix)))
        significant == SkipLeading(digits, {"0"})
    IN IF Len(significant) > MaxSignificant(radix)
       THEN Infinite(negative)
       ELSE ToDouble(negative, ParseDigits(significant, radix))

\* Number.parseInt(x) || 0, written out
ParseIntOrZero(x) == Written(ParseIntNumber(x))

\* timeToSeconds(timeStr), written out
timeToSeconds(timeStr) ==
    LET parts == Split(timeStr)
    IN IF Len(parts) = 2
       THEN Written(Plus(Times60(ParseIntNumber(parts[1])),
                         ParseIntNumber(parts[2])))
       ELSE <<"0">>

\* n.toString() for a natural number
RECURSIVE NatToString(_)
NatToString(n) ==
    IF n < 10 THEN <<Digits[n + 1]>>
    ELSE NatToString(n \div 10) \o <<Digits[(n % 10) + 1]>>

\* s.padStart(2, "0")
PadStart2(s) == IF Len(s) < 2 THEN <<"0">> \o s ELSE s

\* secondsToTime(seconds) for a position of the audio element given in whole
\* seconds from 0 up (Math.floor leaves it as it is)
secondsToTime(seconds) ==
    LET mins == seconds \div 60
        secs == seconds % 60
    IN NatToString(mins) \o <<":">> \o PadStart2(NatToString(secs))

\* /^\d{1,2}:\d{2}$/
validateTimeFormat(timeStr) ==
    \/ /\ Len(timeStr) = 4
       /\ IsDigit(timeStr[1]) /\ timeStr[2] = ":"
       /\ IsDigit(timeStr[3]) /\ IsDigit(timeStr[4])
    \/ /\ Len(timeStr) = 5
       /\ IsDigit(timeStr[1]) /\ IsDigit(timeStr[2]) /\ timeStr[3] = ":"
       /\ IsDigit(timeStr[4]) /\ IsDigit(timeStr[5])

\* url.includes(part)
Includes(url, part) ==
    \E i \in 0..(Len(url) - Len(part)) :
        \A j \in 1..Len(part) : url[i + j] = part[j]

SpotifyTrackPart ==
    <<"s", "p", "o", "t", "i", "f", "y", ".", "c", "o", "m", "/",
      "t", "r", "a", "c", "k", "/">>
SoundCloudPart ==
    <<"s", "o", "u", "n", "d", "c", "l", "o", "u", "d", ".", "c", "o", "m", "/">>

----------------------------------------------------------------------------
(* The record type and the collection *)

\* interface MusicSnippet, with the defaults addNewSnippet gives a new record
NewSnippet(id, position) ==
    [id |-> id, song_name |-> "", audio_type |-> "file", audio_url |-> Null,
     spotify_url |-> EmptyStr, soundcloud_url |-> EmptyStr,
     start_time |-> DefaultTime, notes |-> "", position |-> position]

Ids(sn) == {sn[i].id : i \in 1..Len(sn)}

\* snippets.find((s) => s.id === id) finds something
Has(sn, id) == \E i \in 1..Len(sn) : sn[i].id = id

\* snippets.find((s) => s.id === id), for an id that is there
Find(sn, id) == sn[CHOOSE i \in 1..Len(sn) :
                       sn[i].id = id /\ \A j \in 1..(i - 1) : sn[j].id # id]

\* snippets.map((s) => (s.id === snippet.id ? snippet : s))
ReplaceById(sn, snippet) ==
    [i \in 1..Len(sn) |-> IF sn[i].id = snippet.id THEN snippet ELSE sn[i]]

\* the filter with its test the other way round: it keeps the record id
KeepById(sn, id) == SelectSeq(sn, LAMBDA s : s.id = id)

\* snippets.filter((snippet) => snippet.id !== id)
RemoveById(sn, id) == SelectSeq(sn, LAMBDA s : s.id # id)

\* SetField without the spread of the old record: the other fields fall back
\* to their defaults
SetFieldWithoutSpread(sn, id, field, value) ==
    [i \in 1..Len(sn) |->
        IF sn[i].id = id
        THEN [NewSnippet(sn[i].id, sn[i].position) EXCEPT ![field] = value]
        ELSE sn[i]]

\* snippets.map((snippet) => (snippet.id === id ? { ...snippet, [field]: value } : snippet))
SetField(sn, id, field, value) ==
    [i \in 1..Len(sn) |->
        IF sn[i].id = id THEN [sn[i] EXCEPT ![field] = value] ELSE sn[i]]

\* a || b on strings: the empty string is falsy
OrElse(a, b) == IF a # "" THEN a ELSE b

\* snippets.map((s) => (s.id === id ? { ...s, song_name: s.song_name || trackInfo } : s))
FillName(sn, id, title) ==
    [i \in 1..Len(sn) |->
        IF sn[i].id = id
        THEN [sn[i] EXCEPT !.song_name = OrElse(sn[i].song_name, title)]
        ELSE sn[i]]

\* getSupabase() that looks at the URL alone
SupabaseByUrlOnly == supabaseUrl

\* getSupabase() returns a client
Supabase == supabaseUrl /\ supabaseKey

----------------------------------------------------------------------------
(* Rendering: the audio elements and the localStorage mirror effect *)

\* The rows whose <audio> element is rendered: renderAudioContent reaches the
\* "file" case and snippet.audio_url is set.
Mounted(sn) ==
    {sn[i].id : i \in {j \in 1..Len(sn) :
                          sn[j].audio_type = "file" /\ sn[j].audio_url # Null}}

\* an effect that never writes
MirrorEffectOff(sn, uls, stored, depsChanged) == stored

\* useEffect(..., [snippets, useLocalStorage]): runs after a render in which
\* one of the two changed (setSnippets is always given a new array).
MirrorEffect(sn, uls, stored, depsChanged) ==
    IF depsChanged /\ uls /\ Len(sn) > 0 THEN <<sn>> ELSE stored

\* <audio src={snippet.audio_url}> of row id
SrcOf(sn, id) == Find(sn, id).audio_url

\* The elements of play that still play when the render has made sn of the
\* collection: an element taken out of the document stops playing, and so
\* does one whose src the render changes (React keeps the element of the row
\* and sets its src; the browser then loads the new resource, paused).
StillPlaying(sn, play) ==
    {id \in play \cap Mounted(sn) :
        /\ Has(snippets, id)
        /\ id \in Mounted(snippets)
        /\ SrcOf(sn, id) = SrcOf(snippets, id)}

\* The state after a handler (or the rest of one) has run and React has
\* rendered: sn, cp, uls are the new state values, stored, refs, play what the
\* handler left in localStorage, audioRefs.current and the audio elements,
\* snSet whether it called setSnippets.  The ref callbacks register every
\* rendered <audio>.
Commit(sn, cp, uls, stored, refs, play, snSet) ==
    /\ snippets' = sn
    /\ currentlyPlaying' = cp
    /\ useLocalStorage' = uls
    /\ localStorage' = MirrorEffect(sn, uls, stored, snSet \/ uls # useLocalStorage)
    /\ audioRefs' = refs \cup Mounted(sn)
    /\ playing' = StillPlaying(sn, play)

\* The updates a run of code makes to the three state variables: for each
\* of them <<>>, or <<v>> for the value v last given to its setter.
NoUpdates == [sn |-> <<>>, cp |-> <<>>, uls |-> <<>>]

NoPending == NoUpdates

\* The queue q after code that runs after an await has made the updates u:
\* an update replaces the queued one of its state variable.  React drops
\* setCurrentlyPlaying and setUseLocalStorage of the value the state has
\* when nothing is queued for it; setSnippets is always given a new array.
Queued(q, u) ==
    [sn |-> IF u.sn # <<>> THEN u.sn ELSE q.sn,
     cp |-> IF u.cp = <<>> \/ (q.cp = <<>> /\ u.cp = <<currentlyPlaying>>)
            THEN q.cp ELSE u.cp,
     uls |-> IF u.uls = <<>> \/ (q.uls = <<>> /\ u.uls = <<useLocalStorage>>)
             THEN q.uls ELSE u.uls]

\* The queue q after an event handler has made the updates u and React has
\* rendered them: its update of a state variable is the later one, so the
\* queued one no longer shows.
Overridden(q, u) ==
    [sn |-> IF u.sn # <<>> THEN <<>> ELSE q.sn,
     cp |-> IF u.cp # <<>> THEN <<>> ELSE q.cp,
     uls |-> IF u.uls # <<>> THEN <<>> ELSE q.uls]

\* the value of a state variable after the update upd (<<>> or <<v>>)
Updated(old, upd) == IF upd # <<>> THEN upd[1] ELSE old

\* The render of the queued updates, in a task after the one that made them.
Render ==
    /\ pending # NoPending
    /\ pending' = NoPending
    /\ Commit(Updated(snippets, pending.sn),
              Updated(currentlyPlaying, pending.cp),
              Updated(useLocalStorage, pending.uls),
              localStorage, audioRefs, playing, pending.sn # <<>>)
    /\ UNCHANGED <<supabaseUrl, supabaseKey, mounted, loading, remote, inflight,
                   clock>>

----------------------------------------------------------------------------
(* Awaited calls *)

NoSnippet == NewSnippet(NoId, 0)

\* supabase.from("music_snippets").upsert(snippet), awaited by saveSnippet that
\* was created in a render whose snippets was cs; svc names the URL handler
\* that goes on to look the title up, "none" for the other callers
UpsertCall(snippet, cs, svc) ==
    [kind |-> "upsert", id |-> snippet.id, snippet |-> snippet, cs |-> cs,
     cu |-> FALSE, cp |-> NoId, svc |-> svc]

\* supabase.from("music_snippets").delete().eq("id", id), awaited by
\* deleteSnippet of a render with snippets cs, useLocalStorage cu,
\* currentlyPlaying cp
DeleteCall(id, cs, cu, cp) ==
    [kind |-> "delete", id |-> id, snippet |-> NoSnippet, cs |-> cs,
     cu |-> cu, cp |-> cp, svc |-> "none"]

\* fetchSpotifyTrackInfo(url) / fetchSoundCloudTrackInfo(url), awaited by the
\* URL handler of a render with snippets cs
LookupCall(id, cs, svc) ==
    [kind |-> "lookup", id |-> id, snippet |-> NoSnippet, cs |-> cs,
     cu |-> FALSE, cp |-> NoId, svc |-> svc]

\* supabase.from("music_snippets").select("*").order("position")
ListCall ==
    [kind |-> "list", id |-> NoId, snippet |-> NoSnippet, cs |-> <<>>,
     cu |-> FALSE, cp |-> NoId, svc |-> "none"]

\* if (url && url.includes("spotify.com/track/")) / ("soundcloud.com/")
WantsLookup(svc, url) ==
    \/ svc = "spotify" /\ url # EmptyStr /\ Includes(url, SpotifyTrackPart)
    \/ svc = "soundcloud" /\ url # EmptyStr /\ Includes(url, SoundCloudPart)

UrlOf(snippet, svc) ==
    IF svc = "spotify" THEN snippet.spotify_url
    ELSE IF svc = "soundcloud" THEN snippet.soundcloud_url
    ELSE EmptyStr

\* what a URL handler awaits after its saveSnippet has returned
LookupAfterSave(snippet, cs, svc) ==
    IF WantsLookup(svc, UrlOf(snippet, svc))
    THEN {LookupCall(snippet.id, cs, svc)}
    ELSE {}

\* saveSnippet without a client, and its catch block: the collection of the
\* handler's render with the saved record put in its place
SaveLocal(cs, snippet) == <<ReplaceById(cs, snippet)>>

\* saveSnippet(snippet) called from a render with snippets cs: what is in
\* localStorage when it returns or awaits
SaveStored(snippet, cs) ==
    IF Supabase THEN localStorage ELSE SaveLocal(cs, snippet)

\* saveSnippet(snippet) called by a handler for svc: the calls awaited next
SaveCalls(snippet, cs, svc) ==
    IF Supabase THEN {UpsertCall(snippet, cs, svc)}
    ELSE LookupAfterSave(snippet, cs, svc)

\* the calls that are awaited, each of them once
Awaited == BagToSet(inflight)

\* with the calls of the set calls, no more than MaxInflight calls are awaited
WithinMaxInflight(calls) ==
    BagCardinality(inflight) + Cardinality(calls) <= MaxInflight

\* the user can act: the table is rendered
Ready == mounted /\ ~loading

----------------------------------------------------------------------------
(* What the environment supplies *)

\* a record an earlier session left in a store
EarlierSnippet(name) == [NewSnippet(1, 0) EXCEPT !.song_name = name]

\* localStorage["musicSnippets"] when the page is opened.  The record an
\* earlier session left has no uploaded file; a session that starts with the
\* object URL of an earlier page load in a store (audio.play() on it fails)
\* is not among the sessions described here.
StartStores == {<<>>, << <<EarlierSnippet("Old")>> >>}

\* the rows of music_snippets when the page is opened
StartRemotes == {{}, {EarlierSnippet("Cloud")}}

SpotifyUrls ==
    {<<"s", "p", "o", "t", "i", "f", "y", ".", "c", "o", "m", "/",
       "t", "r", "a", "c", "k", "/", "a">>}
SoundCloudUrls ==
    {<<"s", "o", "u", "n", "d", "c", "l", "o", "u", "d", ".", "c", "o", "m", "/", "b">>}

\* a start time whose minutes have 310 digits: read as a number it is beyond
\* every double
LongTime == [i \in 1..310 |-> "9"] \o <<":", "0", "0">>

\* what the user types into the start-time input: every string of the form
\* d:dd or dd:dd over TimeDigits
TimeDigits == {"0", "1", "5", "7"}

TimeInputs ==
    {<<a, ":", b, c>> : a \in TimeDigits, b \in TimeDigits, c \in TimeDigits}
        \cup {<<a, b, ":", c, d>> : a \in TimeDigits, b \in TimeDigits,
                                     c \in TimeDigits, d \in TimeDigits}

\* the same, with a time left unfinished, a word and the emptied input
TypedTimes == TimeInputs \cup {<<"1", ":", "5">>, <<"b", "a", "d">>, EmptyStr}

\* a few of them: a time, a time left unfinished, a word, the emptied input
BlurTimes ==
    {<<"1", ":", "5", "0">>, <<"1", ":", "5">>, <<"b", "a", "d">>, EmptyStr}

\* titles the oEmbed endpoints answer with
Titles == {"Title"}

\* object URLs of uploaded files, with the name cleanFileName makes of the file
Uploads == {<<"blob:1", "My Song">>, <<"blob:2", "My Song">>}

\* the same for a user who uploads one file
OneUpload == {<<"blob:1", "My Song">>}

\* the collections the state holds: the rendered one, the stored ones, the
\* queued one and those of the handlers that are waiting for an answer
HeldCollections ==
    {snippets} \cup {localStorage[i] : i \in 1..Len(localStorage)}
        \cup {pending.sn[i] : i \in 1..Len(pending.sn)}
        \cup {c.cs : c \in Awaited} \cup {<<c.snippet>> : c \in Awaited}

\* the object URLs in use: of a record in memory, in a store or in a call
UrlsInUse ==
    UNION {{sn[i].audio_url : i \in 1..Len(sn)} : sn \in HeldCollections}
        \cup {r.audio_url : r \in remote}

\* URL.createObjectURL(file) never returns a URL it has returned before: those
\* of uploads that the browser can hand to handleFileUpload
NewUploads(uploads) == {u \in uploads : u[1] \notin UrlsInUse}

\* positions (whole seconds) the audio element can be at
PlaybackTimes == {0, 75}

----------------------------------------------------------------------------
(* Loading *)

\* a load that never reads the stored blob
LoadedIgnoringStore(stored, sn) == sn

\* loadSnippetsFromLocalStorage: the collection it leaves in memory
LoadedFromLocalStorage(stored, sn) == IF stored # <<>> THEN stored[1] ELSE sn

\* .order("position", { ascending: true }): the rows in an order of
\* non-decreasing position (the order of equal positions is the store's)
OrderedByPosition(rows) ==
    {s \in [1..Cardinality(rows) -> rows] :
        /\ \A i, j \in 1..Cardinality(rows) : i # j => s[i] # s[j]
        /\ \A i, j \in 1..Cardinality(rows) : i < j => s[i].position <= s[j].position}

\* useEffect(() => {...}, []): load on mount.  While loading is set the
\* component renders a spinner and no input, so no event comes between a
\* load and its render: the load is one step with its render.
Mount ==
    /\ ~mounted
    /\ mounted' = TRUE
    /\ IF Supabase
       THEN /\ inflight' = inflight (+) SetToBag({ListCall})
            /\ UNCHANGED <<snippets, currentlyPlaying, loading, useLocalStorage,
                           audioRefs, playing, localStorage>>
       ELSE /\ loading' = FALSE
            /\ Commit(LoadedFromLocalStorage(localStorage, snippets), currentlyPlaying,
                      TRUE, localStorage, audioRefs, playing, localStorage # <<>>)
            /\ UNCHANGED inflight
    /\ UNCHANGED <<supabaseUrl, supabaseKey, remote, pending, clock>>

\* loadSnippetsFromDatabase after the await: the rows arrived
ListAnswered ==
    /\ BagIn(ListCall, inflight)
    /\ inflight' = inflight (-) SetToBag({ListCall})
    /\ loading' = FALSE
    /\ \E data \in OrderedByPosition(remote) :
           Commit(data, currentlyPlaying, useLocalStorage, localStorage,
                  audioRefs, playing, TRUE)
    /\ UNCHANGED <<supabaseUrl, supabaseKey, mounted, remote, pending, clock>>

\* loadSnippetsFromDatabase after the await: the call failed
ListFailed ==
    /\ BagIn(ListCall, inflight)
    /\ inflight' = inflight (-) SetToBag({ListCall})
    /\ loading' = FALSE
    /\ Commit(LoadedFromLocalStorage(localStorage, snippets), currentlyPlaying,
              TRUE, localStorage, audioRefs, playing, localStorage # <<>>)
    /\ UNCHANGED <<supabaseUrl, supabaseKey, mounted, remote, pending, clock>>

----------------------------------------------------------------------------
(* The handlers, up to their first await *)

\* a handler that changes the collection to sn and calls saveSnippet(snippet)
EditAndSave(sn, snippet, svc) ==
    LET calls == SaveCalls(snippet, snippets, svc)
    IN /\ WithinMaxInflight(calls)
       /\ inflight' = inflight (+) SetToBag(calls)
       /\ Commit(sn, currentlyPlaying, useLocalStorage,
                 SaveStored(snippet, snippets), audioRefs, playing, TRUE)
       /\ pending' = Overridden(pending, [NoUpdates EXCEPT !.sn = <<sn>>])

\* addNewSnippet when Date.now() returns now: the clock does not run backwards,
\* and it can return the value it returned to the add before
addNewSnippetAt(now) ==
    /\ Ready
    /\ now >= clock
    /\ Len(snippets) < MaxSnippets
    /\ clock' = now
    /\ LET newSnippet == NewSnippet(now, Len(snippets))
       IN EditAndSave(Append(snippets, newSnippet), newSnippet, "none")
    /\ UNCHANGED <<supabaseUrl, supabaseKey, mounted, loading, remote>>

\* addNewSnippet at a clock value later than every value before
addNewSnippet == clock < MaxClock /\ addNewSnippetAt(clock + 1)

updateSnippet(id, field, value) ==
    /\ Ready
    /\ Has(snippets, id)
    /\ LET updatedSnippets == SetField(snippets, id, field, value)
       IN EditAndSave(updatedSnippets, Find(updatedSnippets, id), "none")
    /\ UNCHANGED <<supabaseUrl, supabaseKey, mounted, loading, remote, clock>>

\* the collection handleFileUpload sets
WithUpload(sn, id, audioUrl, cleanedName) ==
    [i \in 1..Len(sn) |->
        IF sn[i].id = id
        THEN [sn[i] EXCEPT !.audio_url = audioUrl,
                           !.song_name = OrElse(sn[i].song_name, cleanedName)]
        ELSE sn[i]]

handleFileUpload(id, audioUrl, cleanedName) ==
    /\ Ready
    /\ Has(snippets, id)
    /\ Find(snippets, id).audio_type = "file"
    /\ LET updatedSnippets == WithUpload(snippets, id, audioUrl, cleanedName)
       IN EditAndSave(updatedSnippets, Find(updatedSnippets, id), "none")
    /\ UNCHANGED <<supabaseUrl, supabaseKey, mounted, loading, remote, clock>>

\* handleSpotifyUrlChange up to await saveSnippet(snippet)
handleSpotifyUrlChange(id, url) ==
    /\ Ready
    /\ Has(snippets, id)
    /\ Find(snippets, id).audio_type = "spotify"
    /\ LET updatedSnippets == SetField(snippets, id, "spotify_url", url)
       IN EditAndSave(updatedSnippets, Find(updatedSnippets, id), "spotify")
    /\ UNCHANGED <<supabaseUrl, supabaseKey, mounted, loading, remote, clock>>

\* handleSoundCloudUrlChange up to await saveSnippet(snippet)
handleSoundCloudUrlChange(id, url) ==
    /\ Ready
    /\ Has(snippets, id)
    /\ Find(snippets, id).audio_type = "soundcloud"
    /\ LET updatedSnippets == SetField(snippets, id, "soundcloud_url", url)
       IN EditAndSave(updatedSnippets, Find(updatedSnippets, id), "soundcloud")
    /\ UNCHANGED <<supabaseUrl, supabaseKey, mounted, loading, remote, clock>>

\* DeleteUpdates that sets the Local flag from the answer of this delete alone
DeleteUpdatesFlagFromAnswer(c, ok) ==
    [sn |-> <<RemoveById(c.cs, c.id)>>,
     cp |-> IF c.cp = c.id THEN <<NoId>> ELSE <<>>,
     uls |-> <<~ok>>]

\* The updates deleteSnippet makes in the handler call c, whose remote delete
\* succeeded (ok) or threw: setUseLocalStorage(true) in the catch block,
\* setSnippets(updatedSnippets), and setCurrentlyPlaying(null) when the row
\* is the playing one of the handler's render.
DeleteUpdates(c, ok) ==
    [sn |-> <<RemoveById(c.cs, c.id)>>,
     cp |-> IF c.cp = c.id THEN <<NoId>> ELSE <<>>,
     uls |-> IF ok THEN <<>> ELSE <<TRUE>>]

\* what deleteSnippet leaves in localStorage
DeleteStored(c) ==
    IF ~Supabase \/ c.cu THEN <<RemoveById(c.cs, c.id)>> ELSE localStorage

\* deleteSnippet up to its await; without a client there is no await, and
\* all of it runs in the event handler
deleteSnippet(id) ==
    /\ Ready
    /\ Has(snippets, id)
    /\ LET c == DeleteCall(id, snippets, useLocalStorage, currentlyPlaying)
           u == DeleteUpdates(c, TRUE)
       IN IF Supabase
          THEN /\ WithinMaxInflight({c})
               /\ inflight' = inflight (+) SetToBag({c})
               /\ UNCHANGED <<snippets, currentlyPlaying, useLocalStorage,
                              audioRefs, playing, localStorage, pending>>
          ELSE /\ Commit(Updated(snippets, u.sn),
                         Updated(currentlyPlaying, u.cp),
                         Updated(useLocalStorage, u.uls),
                         DeleteStored(c), audioRefs \ {id}, playing \ {id}, TRUE)
               /\ pending' = Overridden(pending, u)
               /\ UNCHANGED inflight
    /\ UNCHANGED <<supabaseUrl, supabaseKey, mounted, loading, remote, clock>>

----------------------------------------------------------------------------
(* The handlers, after an await *)

\* an insert that leaves a row that is already there as it is
UpsertedIfAbsent(rows, snippet) ==
    IF \E r \in rows : r.id = snippet.id THEN rows ELSE rows \cup {snippet}

\* the rows after upsert(snippet)
Upserted(rows, snippet) == {r \in rows : r.id # snippet.id} \cup {snippet}

\* saveSnippet after the await: the upsert succeeded
UpsertAnswered(c) ==
    /\ BagIn(c, inflight)
    /\ c.kind = "upsert"
    /\ remote' = Upserted(remote, c.snippet)
    /\ inflight' = (inflight (-) SetToBag({c}))
                       (+) SetToBag(LookupAfterSave(c.snippet, c.cs, c.svc))
    /\ UNCHANGED <<supabaseUrl, supabaseKey, mounted, snippets, currentlyPlaying,
                   loading, useLocalStorage, audioRefs, playing, localStorage,
                   pending, clock>>

\* a catch block that takes the record it could not save out of the collection
AfterSaveFailureRollback(c) == <<RemoveById(c.cs, c.id)>>

\* the update of the in-memory collection in the catch block of saveSnippet:
\* the block calls no setSnippets
AfterSaveFailure(c) == <<>>

\* the updates the catch block of saveSnippet makes
SaveFailureUpdates(c) ==
    [sn |-> AfterSaveFailure(c), cp |-> <<>>, uls |-> <<TRUE>>]

\* saveSnippet after the await: the upsert failed, the catch block runs
UpsertFailed(c) ==
    /\ BagIn(c, inflight)
    /\ c.kind = "upsert"
    /\ inflight' = (inflight (-) SetToBag({c}))
                       (+) SetToBag(LookupAfterSave(c.snippet, c.cs, c.svc))
    /\ localStorage' = SaveLocal(c.cs, c.snippet)
    /\ pending' = Queued(pending, SaveFailureUpdates(c))
    /\ UNCHANGED <<supabaseUrl, supabaseKey, mounted, snippets, currentlyPlaying,
                   loading, useLocalStorage, audioRefs, playing, remote, clock>>

\* deleteSnippet from the end of its if (supabase) block on, after the
\* await: the write to localStorage, the pause of the audio element and the
\* removal of its ref are done at once, the state updates are queued
DeleteRest(c, ok) ==
    /\ localStorage' = DeleteStored(c)
    /\ audioRefs' = audioRefs \ {c.id}
    /\ playing' = playing \ {c.id}
    /\ pending' = Queued(pending, DeleteUpdates(c, ok))
    /\ UNCHANGED <<snippets, currentlyPlaying, useLocalStorage>>

\* deleteSnippet after the await: the remote delete succeeded
DeleteAnswered(c) ==
    /\ BagIn(c, inflight)
    /\ c.kind = "delete"
    /\ remote' = {r \in remote : r.id # c.id}
    /\ inflight' = inflight (-) SetToBag({c})
    /\ DeleteRest(c, TRUE)
    /\ UNCHANGED <<supabaseUrl, supabaseKey, mounted, loading, clock>>

\* deleteSnippet after the await: the remote delete failed
DeleteFailed(c) ==
    /\ BagIn(c, inflight)
    /\ c.kind = "delete"
    /\ inflight' = inflight (-) SetToBag({c})
    /\ DeleteRest(c, FALSE)
    /\ UNCHANGED <<supabaseUrl, supabaseKey, mounted, loading, remote, clock>>

\* the URL handlers after await fetch...TrackInfo(url) gave a title:
\* setSnippets(finalSnippets) is queued, saveSnippet(updatedSnippet) is called
LookupAnswered(c, trackInfo) ==
    /\ BagIn(c, inflight)
    /\ c.kind = "lookup"
    /\ LET finalSnippets == FillName(c.cs, c.id, trackInfo)
           calls == IF Has(finalSnippets, c.id)
                    THEN SaveCalls(Find(finalSnippets, c.id), c.cs, "none")
                    ELSE {}
           stored == IF Has(finalSnippets, c.id)
                     THEN SaveStored(Find(finalSnippets, c.id), c.cs)
                     ELSE localStorage
       IN /\ inflight' = (inflight (-) SetToBag({c})) (+) SetToBag(calls)
          /\ localStorage' = stored
          /\ pending' = Queued(pending, [NoUpdates EXCEPT !.sn = <<finalSnippets>>])
    /\ UNCHANGED <<supabaseUrl, supabaseKey, mounted, snippets, currentlyPlaying,
                   loading, useLocalStorage, audioRefs, playing, remote, clock>>

\* the URL handlers after await fetch...TrackInfo(url) gave null
LookupEmpty(c) ==
    /\ BagIn(c, inflight)
    /\ c.kind = "lookup"
    /\ inflight' = inflight (-) SetToBag({c})
    /\ UNCHANGED <<supabaseUrl, supabaseKey, mounted, snippets, currentlyPlaying,
                   loading, useLocalStorage, audioRefs, playing, localStorage,
                   remote, pending, clock>>

----------------------------------------------------------------------------
(* Playback *)

\* audio.play() without pausing the other elements first
PlayWithoutPausing(refs, play, id) == play \cup {id}

\* the playing elements after Object.values(audioRefs.current).forEach((a) =>
\* a.pause()) and audio.play()
PlayOnly(refs, play, id) == (play \ refs) \cup {id}

\* the play/pause button of a row is rendered
HasPlayButton(sn, id) == Has(sn, id) /\ id \in Mounted(sn)

\* audio.currentTime = timeToSeconds(snippet.start_time) throws a TypeError:
\* the element takes no position that is not finite.  (A finite position
\* moves the element; the model leaves its position to the environment, see
\* PlaybackTimes.)
SeekThrows(snippet) ==
    /\ snippet.audio_type = "file"
    /\ snippet.start_time # EmptyStr
    /\ snippet.start_time # DefaultTime
    /\ ~IsFiniteNumber(timeToSeconds(snippet.start_time))

\* The play/pause button of row id.  When the seek throws, the handler ends
\* after it has paused every element.  Otherwise React renders the new
\* currentlyPlaying, and the ref callbacks register every rendered <audio>.
togglePlayPause(id) ==
    /\ Ready
    /\ HasPlayButton(snippets, id)
    /\ id \in audioRefs
    /\ IF currentlyPlaying = id
       THEN /\ playing' = playing \ {id}
            /\ currentlyPlaying' = NoId
            /\ audioRefs' = audioRefs \cup Mounted(snippets)
            /\ pending' = Overridden(pending, [NoUpdates EXCEPT !.cp = <<NoId>>])
       ELSE IF SeekThrows(Find(snippets, id))
       THEN /\ playing' = playing \ audioRefs
            /\ UNCHANGED <<currentlyPlaying, audioRefs, pending>>
       ELSE /\ playing' = PlayOnly(audioRefs, playing, id)
            /\ currentlyPlaying' = id
            /\ audioRefs' = audioRefs \cup Mounted(snippets)
            /\ pending' = Overridden(pending, [NoUpdates EXCEPT !.cp = <<id>>])
    /\ UNCHANGED <<supabaseUrl, supabaseKey, mounted, snippets, loading,
                   useLocalStorage, localStorage, remote, inflight, clock>>

\* The <audio> of row id comes to its end and onEnded runs.  "ended" is no
\* event that React renders at once: setCurrentlyPlaying(null) waits for its
\* render like an update made after an await.
handleAudioEnded(id) ==
    /\ id \in playing
    /\ playing' = playing \ {id}
    /\ pending' = Queued(pending, [NoUpdates EXCEPT !.cp = <<NoId>>])
    /\ UNCHANGED <<supabaseUrl, supabaseKey, mounted, snippets, currentlyPlaying,
                   loading, useLocalStorage, audioRefs, localStorage, remote,
                   inflight, clock>>

\* the clock button of the playing row; t is audio.currentTime
getCurrentPlaybackTime(id, t) ==
    /\ HasPlayButton(snippets, id)
    /\ currentlyPlaying = id
    /\ id \in audioRefs
    /\ updateSnippet(id, "start_time", secondsToTime(t))

\* the test without its special case for the emptied input
StartTimeOkUnlessEmpty(value) == validateTimeFormat(value)

\* the start-time input of row id lets the value through as it is
StartTimeOk(value) == validateTimeFormat(value) \/ value = EmptyStr

\* onBlur of the start-time input of row id; e.target.value is the value of
\* the controlled input, the start_time of the row
startTimeBlur(id) ==
    /\ Ready
    /\ Has(snippets, id)
    /\ IF ~StartTimeOk(Find(snippets, id).start_time)
       THEN updateSnippet(id, "start_time", DefaultTime)
       ELSE UNCHANGED vars

----------------------------------------------------------------------------
(* The session *)

Init ==
    /\ supabaseUrl \in BOOLEAN
    /\ supabaseKey \in BOOLEAN
    /\ mounted = FALSE
    /\ snippets = <<>>
    /\ currentlyPlaying = NoId
    /\ loading = TRUE
    /\ useLocalStorage = FALSE
    /\ audioRefs = {}
    /\ playing = {}
    /\ localStorage \in StartStores
    /\ remote \in (IF supabaseUrl /\ supabaseKey THEN StartRemotes ELSE {{}})
    /\ inflight = EmptyBag
    /\ pending = NoPending
    /\ clock = 1

----------------------------------------------------------------------------
(* Specifications.  Each one is the component under a user who uses a part  *)
(* of the table, so that TLC can visit every state.                         *)

\* the rows the user can act on
RowIds == 1..MaxClock

\* Spec: adding, editing the name and the notes, deleting, with every answer
\* of the remote store.
StoreEdits == {<<"song_name", "Riff">>, <<"notes", "dry snare">>}

Next ==
    \/ Mount
    \/ ListAnswered
    \/ ListFailed
    \/ addNewSnippet
    \/ \E id \in RowIds : \E e \in StoreEdits : updateSnippet(id, e[1], e[2])
    \/ \E id \in RowIds : deleteSnippet(id)
    \/ \E c \in Awaited : UpsertAnswered(c)
    \/ \E c \in Awaited : UpsertFailed(c)
    \/ \E c \in Awaited : DeleteAnswered(c)
    \/ \E c \in Awaited : DeleteFailed(c)
    \/ Render

Spec == Init /\ [][Next]_vars

\* SpecMeta: pasting track URLs and typing names while titles are looked up;
\* both stores start empty.
MetaEdits ==
    {<<"audio_type", "spotify">>, <<"audio_type", "soundcloud">>,
     <<"song_name", "Riff">>}

InitMeta == Init /\ localStorage = <<>> /\ remote = {}

NextMeta ==
    \/ Mount
    \/ ListAnswered
    \/ ListFailed
    \/ addNewSnippet
    \/ \E id \in RowIds : \E e \in MetaEdits : updateSnippet(id, e[1], e[2])
    \/ \E id \in RowIds : \E url \in SpotifyUrls : handleSpotifyUrlChange(id, url)
    \/ \E id \in RowIds : \E url \in SoundCloudUrls : handleSoundCloudUrlChange(id, url)
    \/ \E c \in Awaited : UpsertAnswered(c)
    \/ \E c \in Awaited : UpsertFailed(c)
    \/ \E c \in Awaited : \E title \in Titles : LookupAnswered(c, title)
    \/ \E c \in Awaited : LookupEmpty(c)
    \/ Render

SpecMeta == InitMeta /\ [][NextMeta]_vars

\* SpecPlay: uploading files to the rows and playing them, while the user
\* switches the audio kind of the row added in this session and deletes that
\* row; the remote store gives every answer to an upsert and to a delete,
\* and the browser's local storage starts empty.
PlayEdits == {<<"audio_type", "file">>, <<"audio_type", "spotify">>}

\* the id of the row added in a session: the clock starts at 1
AddedRow == 2

InitPlay == Init /\ localStorage = <<>>

NextPlay ==
    \/ Mount
    \/ ListAnswered
    \/ ListFailed
    \/ addNewSnippet
    \/ \E e \in PlayEdits : updateSnippet(AddedRow, e[1], e[2])
    \/ \E id \in RowIds : \E u \in NewUploads(Uploads) : handleFileUpload(id, u[1], u[2])
    \/ deleteSnippet(AddedRow)
    \/ \E c \in Awaited : UpsertAnswered(c)
    \/ \E c \in Awaited : UpsertFailed(c)
    \/ \E c \in Awaited : DeleteAnswered(c)
    \/ \E c \in Awaited : DeleteFailed(c)
    \/ \E id \in RowIds : togglePlayPause(id)
    \/ \E id \in RowIds : handleAudioEnded(id)
    \/ Render

SpecPlay == InitPlay /\ [][NextPlay]_vars

\* SpecLocal: a session without remote configuration, after an earlier
\* session that left a record in local storage or none.  Rows are added,
\* named and deleted; a start time is left unfinished in the row of the
\* earlier session and the input loses focus; the row added in this session
\* is switched between Uploaded File and Spotify, given a file, and a
\* Spotify track URL is pasted into it, also while the lookup for the paste
\* before is awaited; the lookup gives every answer.  Nothing is played.
LocalEdits == {<<"song_name", "Riff">>}

\* the row the earlier session left
EarlierRow == 1

\* a start time the user has not finished typing
UnfinishedTime == <<"1", ":", "5">>

InitLocal == Init /\ ~(supabaseUrl /\ supabaseKey)

InitLocalEmpty == InitLocal /\ localStorage = <<>>

NextLocal ==
    \/ Mount
    \/ addNewSnippet
    \/ \E id \in RowIds : \E e \in LocalEdits : updateSnippet(id, e[1], e[2])
    \/ updateSnippet(EarlierRow, "start_time", UnfinishedTime)
    \/ \E e \in PlayEdits : updateSnippet(AddedRow, e[1], e[2])
    \/ \E u \in NewUploads(OneUpload) : handleFileUpload(AddedRow, u[1], u[2])
    \/ \E id \in RowIds : deleteSnippet(id)
    \/ \E url \in SpotifyUrls : handleSpotifyUrlChange(AddedRow, url)
    \/ \E c \in Awaited : \E title \in Titles : LookupAnswered(c, title)
    \/ \E c \in Awaited : LookupEmpty(c)
    \/ \E id \in RowIds : startTimeBlur(id)
    \/ Render

SpecLocal == InitLocal /\ [][NextLocal]_vars

\* SpecClock: a session in which Date.now() can return the same value to
\* consecutive adds (two clicks within one tick of the clock); both stores
\* start empty, so every record is one of this session.
ClockEdits == {<<"song_name", "Riff">>}

InitClock == Init /\ localStorage = <<>> /\ remote = {}

NextClock ==
    \/ Mount
    \/ ListAnswered
    \/ ListFailed
    \/ \E now \in RowIds : addNewSnippetAt(now)
    \/ \E id \in RowIds : \E e \in ClockEdits : updateSnippet(id, e[1], e[2])
    \/ \E id \in RowIds : deleteSnippet(id)
    \/ \E c \in Awaited : UpsertAnswered(c)
    \/ \E c \in Awaited : UpsertFailed(c)
    \/ \E c \in Awaited : DeleteAnswered(c)
    \/ \E c \in Awaited : DeleteFailed(c)
    \/ Render

SpecClock == InitClock /\ [][NextClock]_vars

\* SpecKind: switching the audio kind of a row between its three values,
\* with one file uploaded, a Spotify track URL pasted and a SoundCloud URL
\* begun; both stores start empty, and the remote store gives every answer
\* to an upsert.
KindEdits ==
    {<<"audio_type", "file">>, <<"audio_type", "spotify">>,
     <<"audio_type", "soundcloud">>}

\* the SoundCloud URL input after the first key: onChange calls the handler
\* with what has been typed so far, for which no title is looked up
BegunSoundCloudUrls == {<<"s">>}

NextKind ==
    \/ Mount
    \/ ListAnswered
    \/ ListFailed
    \/ addNewSnippet
    \/ \E id \in RowIds : \E e \in KindEdits : updateSnippet(id, e[1], e[2])
    \/ \E id \in RowIds : \E u \in NewUploads(OneUpload) : handleFileUpload(id, u[1], u[2])
    \/ \E id \in RowIds : \E url \in SpotifyUrls : handleSpotifyUrlChange(id, url)
    \/ \E id \in RowIds : \E url \in BegunSoundCloudUrls : handleSoundCloudUrlChange(id, url)
    \/ \E c \in Awaited : UpsertAnswered(c)
    \/ \E c \in Awaited : UpsertFailed(c)
    \/ \E c \in Awaited : \E title \in Titles : LookupAnswered(c, title)
    \/ \E c \in Awaited : LookupEmpty(c)
    \/ Render

SpecKind == InitMeta /\ [][NextKind]_vars

\* the file the user uploads to row id, with the name cleanFileName makes of
\* it: one file for each row
RowUpload(id) == {<<(IF id = EarlierRow THEN "blob:1" ELSE "blob:2"), "My Song">>}

\* SpecCodec: a session without remote configuration, after an earlier
\* session that left a record in local storage or none, in which the user
\* types start times into the row added, sets the start time of the earlier
\* row beyond every double, gives each row a file, plays the rows, takes
\* the start time from the playback position and leaves the inputs.
InitCodec == InitLocal

NextCodec ==
    \/ Mount
    \/ addNewSnippet
    \/ \E s \in TypedTimes : updateSnippet(AddedRow, "start_time", s)
    \/ updateSnippet(EarlierRow, "start_time", LongTime)
    \/ \E id \in RowIds : \E u \in NewUploads(RowUpload(id)) : handleFileUpload(id, u[1], u[2])
    \/ \E id \in RowIds : togglePlayPause(id)
    \/ \E id \in RowIds : handleAudioEnded(id)
    \/ \E id \in RowIds : \E t \in PlaybackTimes : getCurrentPlaybackTime(id, t)
    \/ \E id \in RowIds : startTimeBlur(id)
    \/ Render

SpecCodec == InitCodec /\ [][NextCodec]_vars

\* SpecOrder: adding and deleting after an earlier session that made three
\* records and deleted the first two, so that the record it left has
\* position 2.
EarlierLast == [NewSnippet(1, 2) EXCEPT !.song_name = "Old"]

InitOrder ==
    /\ supabaseUrl \in BOOLEAN
    /\ supabaseKey \in BOOLEAN
    /\ mounted = FALSE
    /\ snippets = <<>>
    /\ currentlyPlaying = NoId
    /\ loading = TRUE
    /\ useLocalStorage = FALSE
    /\ audioRefs = {}
    /\ playing = {}
    /\ localStorage \in {<<>>, << <<EarlierLast>> >>}
    /\ remote \in (IF supabaseUrl /\ supabaseKey THEN {{}, {EarlierLast}} ELSE {{}})
    /\ inflight = EmptyBag
    /\ pending = NoPending
    /\ clock = 1

NextOrder ==
    \/ Mount
    \/ ListAnswered
    \/ ListFailed
    \/ addNewSnippet
    \/ \E id \in RowIds : deleteSnippet(id)
    \/ \E c \in Awaited : UpsertAnswered(c)
    \/ \E c \in Awaited : UpsertFailed(c)
    \/ \E c \in Awaited : DeleteAnswered(c)
    \/ \E c \in Awaited : DeleteFailed(c)
    \/ Render

SpecOrder == InitOrder /\ [][NextOrder]_vars

\* SpecBlur: typing start times and leaving the input, with and without a
\* remote store; both stores start empty.
NextBlur ==
    \/ Mount
    \/ ListAnswered
    \/ ListFailed
    \/ addNewSnippet
    \/ \E id \in RowIds : \E s \in BlurTimes : updateSnippet(id, "start_time", s)
    \/ \E id \in RowIds : startTimeBlur(id)
    \/ \E c \in Awaited : UpsertAnswered(c)
    \/ \E c \in Awaited : UpsertFailed(c)
    \/ Render

SpecBlur == InitMeta /\ [][NextBlur]_vars

----------------------------------------------------------------------------
(* Properties *)

\* what loadSnippetsFromLocalStorage would load into an empty collection:
\* the local list()
LocalList == LoadedFromLocalStorage(localStorage, <<>>)

\* The state as the render of the queued updates leaves it when no event is
\* handled before that render: the state that the code run so far has set.
LatestSnippets == Updated(snippets, pending.sn)
LatestPlaying == Updated(currentlyPlaying, pending.cp)
LatestFlag == Updated(useLocalStorage, pending.uls)
LatestStore ==
    MirrorEffect(LatestSnippets, LatestFlag, localStorage,
                 pending.sn # <<>> \/ LatestFlag # useLocalStorage)
LatestList == LoadedFromLocalStorage(LatestStore, <<>>)

\* a call to the remote store, as against a title lookup
IsRemoteCall(c) == c.kind \in {"upsert", "delete", "list"}

FieldNames ==
    {"id", "song_name", "audio_type", "audio_url", "spotify_url",
     "soundcloud_url", "start_time", "notes", "position"}

\* C1: once the session is in Local mode, no step issues a call to the remote
\* store (no upsert, delete or list joins the awaited calls).
C1_NoRemoteCallInLocalMode ==
    [][useLocalStorage => \A c \in BagToSet(inflight' (-) inflight) : ~IsRemoteCall(c)]_vars

\* C2: when a remote upsert fails in Remote mode, the mode becomes Local and,
\* after the catch block, the render of its update and the mirror effect have
\* run, the local list() equals the in-memory collection of that moment.
C2_UpsertFailureMirrorsCollection ==
    [][\A c \in Awaited :
          (UpsertFailed(c) /\ ~LatestFlag)
              => (LatestFlag' /\ LatestList' = LatestSnippets)]_vars

\* C3: when a remote delete fails in Remote mode, the mode becomes Local and
\* the collection without the deleted record is what the local list() returns
\* (once the updates of deleteSnippet are rendered and the mirror effect has
\* run), also when that collection is empty.
C3_DeleteFailureMirrorsCollection ==
    [][\A c \in Awaited :
          (DeleteFailed(c) /\ ~LatestFlag)
              => /\ LatestFlag'
                 /\ ~Has(LatestSnippets', c.id)
                 /\ LatestList' = LatestSnippets']_vars

\* C4: updateSnippet(id, field, value) on an id present in the collection
\* leaves the collection as long as it was, sets that field of the record id
\* to value, and leaves every other field of it and every other record as
\* they were; the collection before the call is the one the code has set
\* last, the collection after it the one the call sets.
C4_UpdateChangesOneField ==
    [][\A id \in RowIds : \A e \in StoreEdits :
          (updateSnippet(id, e[1], e[2]) /\ Has(LatestSnippets, id))
              => /\ Len(LatestSnippets') = Len(LatestSnippets)
                 /\ \A i \in 1..Len(LatestSnippets) :
                       IF LatestSnippets[i].id = id
                       THEN /\ LatestSnippets'[i][e[1]] = e[2]
                            /\ \A f \in FieldNames \ {e[1]} :
                                   LatestSnippets'[i][f] = LatestSnippets[i][f]
                       ELSE LatestSnippets'[i] = LatestSnippets[i]]_vars

\* C5: when a title lookup resolves with a title, the collection the handler
\* sets differs from the collection of the moment before in nothing but the
\* song_name of the record the lookup was for.
C5_LookupChangesOnlyName ==
    [][\A c \in Awaited : \A title \in Titles :
          LookupAnswered(c, title)
              => /\ Len(LatestSnippets') = Len(LatestSnippets)
                 /\ \A i \in 1..Len(LatestSnippets) :
                       IF LatestSnippets[i].id = c.id
                       THEN LatestSnippets'[i] =
                                [LatestSnippets[i] EXCEPT
                                     !.song_name = LatestSnippets'[i].song_name]
                       ELSE LatestSnippets'[i] = LatestSnippets[i]]_vars

\* C6: a record whose song_name is not empty when the lookup resolves keeps
\* that song_name (so the title is written only over an empty name).
C6_LookupKeepsName ==
    [][\A c \in Awaited : \A title \in Titles :
          (/\ LookupAnswered(c, title)
           /\ Has(LatestSnippets, c.id)
           /\ Find(LatestSnippets, c.id).song_name # "")
              => /\ Has(LatestSnippets', c.id)
                 /\ Find(LatestSnippets', c.id).song_name
                        = Find(LatestSnippets, c.id).song_name]_vars

\* C7: when deleteSnippet(id) finishes, the collection it sets is the
\* collection of the moment before without the record id.
C7_DeleteRemovesOnlyId ==
    [][/\ \A c \in Awaited :
             (DeleteAnswered(c) \/ DeleteFailed(c))
                 => LatestSnippets' = RemoveById(LatestSnippets, c.id)
       /\ \A id \in RowIds :
             (deleteSnippet(id) /\ ~Supabase)
                 => snippets' = RemoveById(snippets, id)]_vars

\* C8: handling a failed remote upsert leaves the in-memory collection as it
\* was (the rendered one and the one the code has set), and after handling a
\* failed remote delete the record is not in the collection the code has
\* set: a failure undoes nothing.
C8_FailureKeepsEdit ==
    [][\A c \in Awaited :
          /\ UpsertFailed(c)
                => (snippets' = snippets /\ LatestSnippets' = LatestSnippets)
          /\ DeleteFailed(c) => ~Has(LatestSnippets', c.id)]_vars

\* C8 witness: record 2 was added behind the loaded record 1 and named, and
\* record 1 was deleted; the remote store took neither the upserts (it has no
\* row 2) nor the delete (it still has row 1), the session is demoted, and
\* the collection is the named record 2 alone.
C8_Witness ==
    /\ Supabase
    /\ useLocalStorage
    /\ inflight = EmptyBag
    /\ pending = NoPending
    /\ remote = {EarlierSnippet("Cloud")}
    /\ snippets = <<[NewSnippet(2, 1) EXCEPT !.song_name = "Riff"]>>

C10_DeletedIsNotPlaying ==
    [][/\ \A c \in Awaited :
             (DeleteAnswered(c) \/ DeleteFailed(c))
                 => (LatestPlaying' # c.id /\ c.id \notin playing')
       /\ (currentlyPlaying' = NoId \/ Has(snippets', currentlyPlaying'))]_vars

\* the collection sn ends with the record addNewSnippet made with id id and
\* nothing has changed that record since: sn is what adding to Front(sn) left
EndsWithNew(sn, id) ==
    /\ Len(sn) > 0
    /\ sn[Len(sn)] = NewSnippet(id, Len(sn) - 1)

Front(sn) == SubSeq(sn, 1, Len(sn) - 1)

C12_IdsUniqueAndStable ==
    [][/\ \A i, j \in 1..Len(snippets') :
             i # j => snippets'[i].id # snippets'[j].id
       /\ \A id \in RowIds : \A e \in ClockEdits :
             updateSnippet(id, e[1], e[2])
                 => /\ Len(snippets') = Len(snippets)
                    /\ \A i \in 1..Len(snippets) :
                          snippets'[i].id = snippets[i].id]_vars

\* C13: without remote configuration, after every step of the mounted
\* component (each add, update or delete with the effects that follow it)
\* the local-storage blob holds the in-memory collection: the one the code
\* has set, and the rendered one whenever no collection waits for its
\* render; an add to the empty collection leaves one record, with position
\* 0 and start_time "0:00"; and setting the song_name of the only record
\* leaves one stored record, with that song_name.
C13_LocalBlobIsCollection ==
    [][/\ mounted' => /\ LatestList' = LatestSnippets'
                      /\ pending'.sn = <<>> => LocalList' = snippets'
       /\ (snippets = <<>> /\ addNewSnippet)
             => /\ Len(snippets') = 1
                /\ snippets'[1].position = 0
                /\ snippets'[1].start_time = DefaultTime
       /\ \A id \in RowIds : \A e \in LocalEdits :
             (/\ e[1] = "song_name"
              /\ Len(snippets) = 1
              /\ updateSnippet(id, e[1], e[2]))
                 => /\ Len(LocalList') = 1
                    /\ LocalList'[1].song_name = e[2]]_vars

\* C13 witness: local storage held the record of an earlier session; record
\* 2 was added behind it and named, and the blob holds the two records.
C13_Witness ==
    /\ ~Supabase
    /\ snippets = <<EarlierSnippet("Old"),
                    [NewSnippet(2, 1) EXCEPT !.song_name = "Riff"]>>
    /\ localStorage = <<snippets>>

\* C14: every operation changes the in-memory collection in the step in which
\* it is called, before any answer of the remote store: after addNewSnippet
\* the new record is in the collection, after updateSnippet the field has its
\* value, and after deleteSnippet(id) the record id is gone.
C14_MemoryChangesAtOnce ==
    [][/\ addNewSnippet => Has(snippets', clock')
       /\ \A id \in RowIds : \A e \in StoreEdits :
             updateSnippet(id, e[1], e[2]) => Find(snippets', id)[e[1]] = e[2]
       /\ \A id \in RowIds :
             deleteSnippet(id) => ~Has(snippets', id)]_vars

RECURSIVE WrittenValue(_, _)
WrittenValue(w, acc) ==
    IF w = <<>> THEN acc
    ELSE IF Head(w) = "-" THEN 0 - WrittenValue(Tail(w), acc)
    ELSE WrittenValue(Tail(w), acc * 10 + DigitValue(Head(w)))

\* s without the zero that pads its minutes to two digits
Unpadded(s) == IF Len(s) = 5 /\ s[1] = "0" THEN Tail(s) ELSE s

\* C16: for every start time s in the collection that validateTimeFormat
\* accepts, secondsToTime(timeToSeconds(s)) is s, up to the zero that pads
\* the minutes.
C16_TimeRoundTrip ==
    \A i \in 1..Len(snippets) :
        validateTimeFormat(snippets[i].start_time)
            => secondsToTime(WrittenValue(timeToSeconds(snippets[i].start_time), 0))
                   = Unpadded(snippets[i].start_time)

\* C17: the mount effect leaves the session in Local mode exactly when the
\* URL or the key is missing; with both it asks the remote store for the
\* list; without both it loads the collection local storage holds (none when
\* it holds nothing), and no call to the remote store is ever awaited.
C17_ModeAtStartup ==
    [][/\ Mount => (useLocalStorage' <=> ~(supabaseUrl /\ supabaseKey))
       /\ (Mount /\ supabaseUrl /\ supabaseKey) => BagIn(ListCall, inflight')
       /\ (Mount /\ ~(supabaseUrl /\ supabaseKey)) => snippets' = LocalList
       /\ ~(supabaseUrl /\ supabaseKey)
             => (remote' = remote /\ \A c \in BagToSet(inflight') : ~IsRemoteCall(c))]_vars

\* C17 witness: the URL is configured and the key is not; the session is in
\* Local mode with the record local storage held, which has been edited,
\* and nothing is awaited.
C17_Witness ==
    /\ supabaseUrl
    /\ ~supabaseKey
    /\ mounted
    /\ useLocalStorage
    /\ snippets = <<[EarlierSnippet("Old") EXCEPT !.notes = "dry snare"]>>
    /\ inflight = EmptyBag

\* C18: when the startup list() fails, the session is in Local mode, the
\* collection is the one local storage holds, the empty one when it holds
\* nothing, and the loading indicator is off; the indicator is also off
\* after the list has answered and after a load without a client.
C18_ListFailureLoadsLocal ==
    [][/\ ListFailed
             => /\ useLocalStorage'
                /\ snippets' = (IF localStorage = <<>> THEN <<>> ELSE localStorage[1])
                /\ ~loading'
       /\ ListAnswered => ~loading'
       /\ (Mount /\ ~(supabaseUrl /\ supabaseKey)) => ~loading']_vars

\* C18 witness: both stores were empty and the list failed: the session is
\* demoted, nothing is loaded, nothing was added, and the table is shown.
C18_Witness ==
    /\ supabaseUrl /\ supabaseKey
    /\ mounted
    /\ ~loading
    /\ useLocalStorage
    /\ clock = 1
    /\ remote = {}
    /\ localStorage = <<>>
    /\ snippets = <<>>

\* C19: the in-memory collection is in the order of its positions: a record
\* never stands before a record of lower position (records of equal
\* position stand in the order in which they were added).
C19_OrderedByPosition ==
    \A i, j \in 1..Len(snippets) :
        i < j => snippets[i].position <= snippets[j].position

\* C20: remote writes are not serialized per record.  An updateSnippet of a
\* record whose earlier upsert has not answered awaits its own upsert at
\* once, next to the earlier one; and an upsert that answers puts its own
\* payload in the row of its id, whatever was issued or has answered since.
C20_WritesNotSerialized ==
    [][/\ \A id \in RowIds : \A e \in StoreEdits :
             (/\ updateSnippet(id, e[1], e[2])
              /\ supabaseUrl /\ supabaseKey
              /\ \E c \in Awaited : c.kind = "upsert" /\ c.id = id)
                 => \E c \in BagToSet(inflight' (-) inflight) :
                        /\ c.kind = "upsert"
                        /\ c.snippet = Find(snippets', id)
       /\ \A c \in Awaited :
             UpsertAnswered(c)
                 => {r \in remote' : r.id = c.id} = {c.snippet}]_vars

\* C20 witness: the name and then the notes of record 1 were edited, the two
\* upserts were in flight together and the second answered first; every
\* call has answered, none has failed, and the remote row has the name
\* without the notes that the in-memory record has.
C20_Witness ==
    /\ supabaseUrl /\ supabaseKey
    /\ ~useLocalStorage
    /\ inflight = EmptyBag
    /\ pending = NoPending
    /\ ~LatestFlag
    /\ snippets = <<[EarlierSnippet("Riff") EXCEPT !.notes = "dry snare"]>>
    /\ remote = {EarlierSnippet("Riff")}

\* C21: whenever the session is in Local mode, no call is awaited and no
\* update waits for its render, the local-storage blob holds the in-memory
\* collection.
C21_LocalModeBlobIsCollection ==
    (mounted /\ useLocalStorage /\ inflight = EmptyBag /\ pending = NoPending)
        => LocalList = snippets

\* C22: a step never takes the session out of Local mode, neither the
\* rendered flag nor the flag the code has set; a step that sets the flag is
\* the mount effect without a client, a failed list, a failed upsert or a
\* failed delete; and the rendered flag is set by one of the first two or by
\* the render of a flag that was set.
C22_LocalFlagMonotone ==
    [][/\ useLocalStorage => useLocalStorage'
       /\ LatestFlag => LatestFlag'
       /\ (~LatestFlag /\ LatestFlag')
             => \/ Mount /\ ~(supabaseUrl /\ supabaseKey)
                \/ ListFailed
                \/ \E c \in Awaited : UpsertFailed(c) \/ DeleteFailed(c)
       /\ (~useLocalStorage /\ useLocalStorage')
             => \/ Mount /\ ~(supabaseUrl /\ supabaseKey)
                \/ ListFailed
                \/ Render /\ pending.uls = <<TRUE>>]_vars

\* C22 witness: with a client, the list failed on empty stores and the
\* session was demoted; record 2 was then added and its upsert succeeded,
\* and the session is still in Local mode.
C22_Witness ==
    /\ supabaseUrl /\ supabaseKey
    /\ useLocalStorage
    /\ inflight = EmptyBag
    /\ snippets = <<NewSnippet(2, 0)>>
    /\ remote = {NewSnippet(2, 0)}

\* one or two digits, a colon, two digits
IsTimeShape(s) ==
    /\ Len(s) \in 4..5
    /\ s[Len(s) - 2] = ":"
    /\ \A i \in 1..Len(s) : i # Len(s) - 2 => s[i] \in {Digits[d] : d \in 1..10}

\* C23: when the start-time input of a row has lost focus, the start_time
\* of the row is empty or has the shape of a time; it is "0:00" when the
\* value was neither, and the value as it was otherwise.
C23_BlurLeavesTimeOrEmpty ==
    [][\A id \in RowIds :
          startTimeBlur(id)
              => LET old == Find(snippets, id).start_time
                     new == Find(snippets', id).start_time
                 IN /\ Has(snippets', id)
                    /\ new = EmptyStr \/ IsTimeShape(new)
                    /\ IF old = EmptyStr \/ IsTimeShape(old)
                       THEN new = old
                       ELSE new = DefaultTime]_vars

\* C23 witness: the input of a row held "1:5" when it lost focus; the
\* upsert the handler awaits carries "0:00", and so does the row.
C23_Witness ==
    \E c \in Awaited :
        /\ c.kind = "upsert"
        /\ Has(c.cs, c.id)
        /\ Has(snippets, c.id)
        /\ Find(c.cs, c.id).start_time = <<"1", ":", "5">>
        /\ c.snippet.start_time = DefaultTime
        /\ Find(snippets, c.id).start_time = DefaultTime

====
